---- MODULE Spec2Model ----
(***************************************************************************)
(* Enrollment service of the workshop portal: the enrollment model         *)
(* (InscripcionModel), the workshop model (TallerModel) and the            *)
(* administrator's workshop routes, over the two tables talleres and       *)
(* inscripciones.  Every awaited store round-trip is one step.             *)
(***************************************************************************)
EXTENDS Integers, Sequences, FiniteSets, TLC

(* ---- bounds ---------------------------------------------------------- *)
MaxCupo     == 2   \* largest cupo_maximo an administrator types
MaxCalls    == 2   \* InscripcionModel.create calls, each may overlap the others
MaxClock    == 2   \* UPDATE statements on inscripciones (CURRENT_TIMESTAMP ticks)

\* identities (opaque ids in the store)
Alumnos   == {1, 2}        \* student profiles
TallerIds == {1, 2}        \* workshop ids; an id not yet created is a missing workshop
Calls     == 1..MaxCalls
RowIds    == 1..MaxCalls   \* every row is inserted by one create call
UsuarioIds == {1, 2}       \* user ids; the student profile of user u has id u

(* ---- texts ----------------------------------------------------------- *)
\* A text is a sequence of tokens; SQL NULL / JS null is the one-token text NULL.
NULL == <<"<null>">>
Truthy(txt) == txt # NULL /\ txt # <<>>          \* JS truthiness of a string or null

ComentariosCreate == {NULL, <<"c">>}             \* comentarios given to create
ComentariosUpdate == {NULL, <<"u">>}             \* comentarios given to updateEstado
Motivos           == {NULL, <<>>, <<"m">>}       \* motivo given to cancelar
Estados           == {"activa", "cancelada", "inactiva"}

ErrYaInscrito == "El alumno ya esta inscrito en otro taller"
ErrNoTaller   == "El taller no existe o esta inactivo"
ErrSinCupo    == "No hay cupos disponibles en este taller"

VARIABLES
    talleres,       \* table talleres: id -> [existe, cupo_maximo, activo]
    inscripciones,  \* table inscripciones: sequence of rows, id = position
    pc,             \* per create call: position in InscripcionModel.create
    args,           \* per create call: its inscripcionData
    res,            \* per create call: what the call returned or threw
    ret,            \* what the last updateEstado or cancelar call returned
    lector,         \* the reading client: its call in flight, or what it returned
    reloj,          \* CURRENT_TIMESTAMP, one tick per UPDATE of inscripciones
    borrar,         \* the administrator's DELETE of a workshop: the request in
                    \* flight, its last response, the ids deleted so far
    peticion,       \* an HTTP request on its way through the middleware chain
                    \* of its route, and the response once it is sent
    usuarios,       \* table usuarios with the profile row of each user:
                    \* id -> [existe, activo, tipo_usuario, perfil, tx]
    emergencia,     \* table informacion_emergencia: id -> row
    consulta        \* the statement the last update builder made, or its error

vars == <<talleres, inscripciones, pc, args, res, ret, lector, reloj, borrar,
         peticion, usuarios, emergencia, consulta>>

NoTaller == [existe |-> FALSE, cupo_maximo |-> 0, activo |-> FALSE]
NoArgs   == [alumno_id |-> 0, taller_id |-> 0, comentarios |-> NULL]
NoRes    == [outcome |-> "none", id |-> 0]
NoRet    == [op |-> "none"]
NoLector == [pc |-> "idle", taller_id |-> 0, op |-> "none", val |-> <<>>]
NoBorrar == [pc |-> "idle", taller_id |-> 0, status |-> 0, idos |-> {}]
EmergenciaIds == {1, 2}
NoEmergencia ==
    [existe |-> FALSE, usada |-> FALSE, alumno_id |-> 0, datos |-> <<>>,
     updated_at |-> 0]
NoConsulta == [op |-> "none"]
NoUsuario == [existe |-> FALSE, activo |-> FALSE, tipo_usuario |-> "none",
              perfil |-> <<>>, tx |-> 0]
NoPeticion == [pc |-> "idle", entrada |-> <<>>, user |-> <<>>, alumno |-> <<>>,
               status |-> 0, body |-> <<>>, envios |-> 0, err |-> <<>>]

(* ---- the store ------------------------------------------------------- *)
\* transaction(callback) runs the callback's statements between BEGIN and
\* COMMIT at the store's default isolation, read committed, and no statement
\* of create takes a lock: a row written inside a transaction carries the
\* writer in tx until COMMIT, and every statement of another session sees
\* committed rows only.
Committed(r) == r.tx = 0

Ids == 1..Len(inscripciones)

\* the same query comparing estado with the wrong literal
ActivasDeAlumnoInactiva(a) ==
    {i \in Ids : /\ Committed(inscripciones[i])
                 /\ inscripciones[i].alumno_id = a
                 /\ inscripciones[i].estado = "inactiva"}

\* SELECT id FROM inscripciones WHERE alumno_id = $1 AND estado = 'activa'
ActivasDeAlumno(a) ==
    {i \in Ids : /\ Committed(inscripciones[i])
                 /\ inscripciones[i].alumno_id = a
                 /\ inscripciones[i].estado = "activa"}

\* SELECT COUNT(*) FROM inscripciones WHERE taller_id = $1 AND estado = 'activa'
ActivasDeTaller(t) ==
    {i \in Ids : /\ Committed(inscripciones[i])
                 /\ inscripciones[i].taller_id = t
                 /\ inscripciones[i].estado = "activa"}

\* SQL function verificar_cupo_disponible(taller_id)
verificar_cupo_disponible(t) ==
    IF t \in TallerIds /\ talleres[t].existe /\ talleres[t].activo
    THEN talleres[t].cupo_maximo - Cardinality(ActivasDeTaller(t))
    ELSE -1

(* ---- InscripcionModel.create ---------------------------------------- *)
\* Calls are numbered in the order they start.
CreateBegin(c, a, t, com) ==
    /\ pc[c] = "idle" /\ res[c] = NoRes
    /\ \A d \in Calls : d < c => args[d] # NoArgs
    /\ pc' = [pc EXCEPT ![c] = "select_activa"]
    /\ args' = [args EXCEPT ![c] = [alumno_id |-> a, taller_id |-> t, comentarios |-> com]]
    /\ UNCHANGED <<talleres, inscripciones, res, ret, lector, reloj, borrar, peticion, usuarios, emergencia, consulta>>

\* the check on the first query: the error thrown, or "ok"
CheckActiva(a) ==
    IF ActivasDeAlumno(a) # {} THEN ErrYaInscrito ELSE "ok"

\* the seat test written < 0: no seat left passes
CheckCupoEstricto(t) ==
    LET cuposDisponibles == verificar_cupo_disponible(t)
    IN  IF cuposDisponibles = -1 THEN ErrNoTaller
        ELSE IF cuposDisponibles < 0 THEN ErrSinCupo
        ELSE "ok"


\* the checks on the second query: the error thrown, or "ok"
CheckCupo(t) ==
    LET cuposDisponibles == verificar_cupo_disponible(t)
    IN  IF cuposDisponibles = -1 THEN ErrNoTaller
        ELSE IF cuposDisponibles <= 0 THEN ErrSinCupo
        ELSE "ok"

\* A throw leaves the callback: the transaction is rolled back (nothing was
\* written yet) and the call rejects with the error.
CreateSelectActiva(c) ==
    /\ pc[c] = "select_activa"
    /\ IF CheckActiva(args[c].alumno_id) # "ok"
       THEN /\ pc' = [pc EXCEPT ![c] = "idle"]
            /\ res' = [res EXCEPT ![c] =
                          [outcome |-> CheckActiva(args[c].alumno_id), id |-> 0]]
       ELSE /\ pc' = [pc EXCEPT ![c] = "select_cupo"]
            /\ UNCHANGED res
    /\ UNCHANGED <<talleres, inscripciones, args, ret, lector, reloj, borrar, peticion, usuarios, emergencia, consulta>>

CreateSelectCupo(c) ==
    /\ pc[c] = "select_cupo"
    /\ IF CheckCupo(args[c].taller_id) # "ok"
       THEN /\ pc' = [pc EXCEPT ![c] = "idle"]
            /\ res' = [res EXCEPT ![c] =
                          [outcome |-> CheckCupo(args[c].taller_id), id |-> 0]]
       ELSE /\ pc' = [pc EXCEPT ![c] = "insert"]
            /\ UNCHANGED res
    /\ UNCHANGED <<talleres, inscripciones, args, ret, lector, reloj, borrar, peticion, usuarios, emergencia, consulta>>

\* column defaults of the two tables: the INSERTs name neither column
EstadoInicial == "activa"
ActivoInicial == TRUE

\* the INSERT with its first two values in the other order
NuevaFilaCruzada(c) ==
    [alumno_id |-> args[c].taller_id, taller_id |-> args[c].alumno_id,
     estado |-> EstadoInicial, comentarios |-> args[c].comentarios,
     fecha_actualizacion |-> 0, tx |-> c]


NuevaFila(c) ==
    [alumno_id |-> args[c].alumno_id, taller_id |-> args[c].taller_id,
     estado |-> EstadoInicial, comentarios |-> args[c].comentarios,
     fecha_actualizacion |-> 0, tx |-> c]

\* the INSERT sent through the pool's query, outside the transaction: it
\* commits on its own
CreateInsertFueraDeTx(c) ==
    /\ pc[c] = "insert"
    /\ inscripciones' = Append(inscripciones, [NuevaFila(c) EXCEPT !.tx = 0])
    /\ pc' = [pc EXCEPT ![c] = "commit"]
    /\ res' = [res EXCEPT ![c] = [outcome |-> "none", id |-> Len(inscripciones) + 1]]
    /\ UNCHANGED <<talleres, args, ret, lector, reloj, borrar, peticion, usuarios, emergencia, consulta>>


CreateInsert(c) ==
    /\ pc[c] = "insert"
    /\ inscripciones' = Append(inscripciones, NuevaFila(c))
    /\ pc' = [pc EXCEPT ![c] = "commit"]
    /\ res' = [res EXCEPT ![c] = [outcome |-> "none", id |-> Len(inscripciones) + 1]]
    /\ UNCHANGED <<talleres, args, ret, lector, reloj, borrar, peticion, usuarios, emergencia, consulta>>

CreateCommit(c) ==
    /\ pc[c] = "commit"
    /\ inscripciones' = [inscripciones EXCEPT ![res[c].id].tx = 0]
    /\ pc' = [pc EXCEPT ![c] = "idle"]
    /\ res' = [res EXCEPT ![c].outcome = "ok"]
    /\ UNCHANGED <<talleres, args, ret, lector, reloj, borrar, peticion, usuarios, emergencia, consulta>>

\* A round-trip of the call fails in the store (connection lost, statement
\* timeout): the statement has no effect, the error leaves the callback,
\* transaction() rolls back and rethrows.  A row the transaction wrote is
\* never seen by anyone: it stays in the heap with tx = Aborted.
ErrStore == "StoreError"
Aborted  == -1

Rollback(c) ==
    [i \in Ids |-> IF inscripciones[i].tx = c
                   THEN [inscripciones[i] EXCEPT !.tx = Aborted]
                   ELSE inscripciones[i]]

CreateFalla(c) ==
    /\ pc[c] \in {"select_activa", "select_cupo", "insert", "commit"}
    /\ inscripciones' = Rollback(c)
    /\ pc' = [pc EXCEPT ![c] = "idle"]
    /\ res' = [res EXCEPT ![c] = [outcome |-> ErrStore, id |-> 0]]
    /\ UNCHANGED <<talleres, args, ret, lector, reloj, borrar, peticion, usuarios, emergencia, consulta>>


(* ---- InscripcionModel.updateEstado ---------------------------------- *)
\* COALESCE($2, comentarios)
Coalesce(a, b) == IF a # NULL THEN a ELSE b

\* A bare UPDATE ... WHERE id = $n matches the committed row with that id.
Existe(id) == id \in Ids /\ Committed(inscripciones[id])

\* the returned value: rows[0] || null, as <<row>> or <<>>
UpdateEstado(id, nuevoEstado, com) ==
    /\ IF Existe(id)
       THEN /\ reloj < MaxClock
            /\ reloj' = reloj + 1
            /\ inscripciones' = [inscripciones EXCEPT ![id] =
                   [@ EXCEPT !.estado = nuevoEstado,
                             !.comentarios = Coalesce(com, @),
                             !.fecha_actualizacion = reloj + 1]]
            /\ ret' = [op |-> "updateEstado", val |-> <<inscripciones'[id]>>]
       ELSE /\ UNCHANGED <<inscripciones, reloj>>
            /\ ret' = [op |-> "updateEstado", val |-> <<>>]
    /\ UNCHANGED <<talleres, pc, args, res, lector, borrar, peticion, usuarios, emergencia, consulta>>

(* ---- InscripcionModel.cancelar -------------------------------------- *)
ComentarioCancelacion(motivo) ==
    IF Truthy(motivo) THEN <<"Cancelada: ">> \o motivo
                      ELSE <<"Cancelada por el usuario">>

\* the UPDATE with SET comentarios = $1: the new text in place of the old
ComentarioSobrescrito(previo, comentario) == comentario


\* CASE WHEN comentarios IS NULL THEN $1 ELSE comentarios || ' | ' || $1 END
ComentarioCancelado(previo, comentario) ==
    IF previo = NULL THEN comentario ELSE previo \o <<" | ">> \o comentario

\* the WHERE clause of the UPDATE in cancelar
CancelarWhere(id) == Existe(id)

\* a cancelar whose UPDATE appends the comment and forgets the state
CancelarSinEstado(id, motivo) ==
    /\ IF CancelarWhere(id)
       THEN /\ reloj < MaxClock
            /\ reloj' = reloj + 1
            /\ inscripciones' = [inscripciones EXCEPT ![id] =
                   [@ EXCEPT !.comentarios =
                                 ComentarioCancelado(@, ComentarioCancelacion(motivo)),
                             !.fecha_actualizacion = reloj + 1]]
       ELSE UNCHANGED <<inscripciones, reloj>>
    /\ ret' = [op |-> "cancelar", val |-> CancelarWhere(id)]
    /\ UNCHANGED <<talleres, pc, args, res, lector, borrar, peticion, usuarios, emergencia, consulta>>

Cancelar(id, motivo) ==
    /\ IF CancelarWhere(id)
       THEN /\ reloj < MaxClock
            /\ reloj' = reloj + 1
            /\ inscripciones' = [inscripciones EXCEPT ![id] =
                   [@ EXCEPT !.estado = "cancelada",
                             !.comentarios =
                                 ComentarioCancelado(@, ComentarioCancelacion(motivo)),
                             !.fecha_actualizacion = reloj + 1]]
       ELSE UNCHANGED <<inscripciones, reloj>>
    /\ ret' = [op |-> "cancelar", val |-> CancelarWhere(id)]
    /\ UNCHANGED <<talleres, pc, args, res, lector, borrar, peticion, usuarios, emergencia, consulta>>

(* ---- InscripcionModel.verificarPuedeInscribirse --------------------- *)
\* An absent (undefined) property of the verdict is <<>>, a present one <<v>>.
Veredicto(puede, razon, cupos, existente) ==
    [puede |-> puede, razon |-> razon, cupos_disponibles |-> cupos,
     inscripcion_existente |-> existente]

RazonYaInscrito == "Ya tienes una inscripcion activa en otro taller"
RazonPuede      == "Puede inscribirse"

Returned(op, val) == [pc |-> "idle", taller_id |-> 0, op |-> op, val |-> val]

\* first query: the student's active enrollments (rows[0] is any of them)
VerificarSelectActiva(a, t) ==
    /\ lector.pc = "idle"
    /\ IF ActivasDeAlumno(a) # {}
       THEN \E i \in ActivasDeAlumno(a) :
               lector' = Returned("verificarPuedeInscribirse",
                                  Veredicto(FALSE, RazonYaInscrito, <<>>, <<i>>))
       ELSE lector' = [pc |-> "select_cupo", taller_id |-> t,
                       op |-> "verificarPuedeInscribirse", val |-> <<>>]
    /\ UNCHANGED <<talleres, inscripciones, pc, args, res, ret, reloj, borrar, peticion, usuarios, emergencia, consulta>>

\* the same verdict with the two tests in the other order
VeredictoCupoInvertido(cuposDisponibles) ==
    IF cuposDisponibles <= 0
    THEN Veredicto(FALSE, ErrSinCupo, <<0>>, <<>>)
    ELSE IF cuposDisponibles = -1
    THEN Veredicto(FALSE, ErrNoTaller, <<>>, <<>>)
    ELSE Veredicto(TRUE, RazonPuede, <<cuposDisponibles>>, <<>>)

\* the verdict computed from the value of the second query
VeredictoCupo(cuposDisponibles) ==
    IF cuposDisponibles = -1
    THEN Veredicto(FALSE, ErrNoTaller, <<>>, <<>>)
    ELSE IF cuposDisponibles <= 0
    THEN Veredicto(FALSE, ErrSinCupo, <<0>>, <<>>)
    ELSE Veredicto(TRUE, RazonPuede, <<cuposDisponibles>>, <<>>)

\* an eligibility check that holds the seat it found: it lowers cupo_maximo
VerificarSelectCupoReserva ==
    /\ lector.pc = "select_cupo"
    /\ lector' = Returned("verificarPuedeInscribirse",
                          VeredictoCupo(verificar_cupo_disponible(lector.taller_id)))
    /\ IF verificar_cupo_disponible(lector.taller_id) > 0
       THEN talleres' = [talleres EXCEPT ![lector.taller_id].cupo_maximo = @ - 1]
       ELSE UNCHANGED talleres
    /\ UNCHANGED <<inscripciones, pc, args, res, ret, reloj, borrar, peticion, usuarios, emergencia, consulta>>


\* second query: the remaining seats
VerificarSelectCupo ==
    /\ lector.pc = "select_cupo"
    /\ lector' = Returned("verificarPuedeInscribirse",
                          VeredictoCupo(verificar_cupo_disponible(lector.taller_id)))
    /\ UNCHANGED <<talleres, inscripciones, pc, args, res, ret, reloj, borrar, peticion, usuarios, emergencia, consulta>>

(* ---- TallerModel ----------------------------------------------------- *)
\* JS: x || -1
OrMinus1(x) == IF x = 0 THEN -1 ELSE x

VerificarCupoDisponible(t) ==
    /\ lector.pc = "idle"
    /\ lector' = Returned("verificarCupoDisponible",
                          OrMinus1(verificar_cupo_disponible(t)))
    /\ UNCHANGED <<talleres, inscripciones, pc, args, res, ret, reloj, borrar, peticion, usuarios, emergencia, consulta>>

\* An optional field of a patch is <<>> when absent and <<v>> when present.
Opt(S) == {<<>>} \cup {<<v>> : v \in S}
Patches == [cupo_maximo : Opt(0..MaxCupo), activo : Opt(BOOLEAN)]

Patched(row, patch) ==
    [row EXCEPT !.cupo_maximo = IF patch.cupo_maximo = <<>> THEN @ ELSE patch.cupo_maximo[1],
                !.activo      = IF patch.activo = <<>> THEN @ ELSE patch.activo[1]]

TallerUpdate(id, updateData) ==
    /\ ~(updateData.cupo_maximo = <<>> /\ updateData.activo = <<>>)
    /\ talleres[id].existe
    /\ talleres' = [talleres EXCEPT ![id] = Patched(@, updateData)]
    /\ UNCHANGED <<inscripciones, pc, args, res, ret, lector, reloj, borrar, peticion, usuarios, emergencia, consulta>>

\* a deactivation that also retires the workshop's enrollments
TallerDeleteCascada(id) ==
    /\ talleres[id].existe
    /\ talleres' = [talleres EXCEPT ![id].activo = FALSE]
    /\ inscripciones' = [i \in Ids |->
           IF inscripciones[i].taller_id = id
           THEN [inscripciones[i] EXCEPT !.estado = "inactiva"]
           ELSE inscripciones[i]]
    /\ UNCHANGED <<pc, args, res, ret, lector, reloj, borrar, peticion, usuarios, emergencia, consulta>>


TallerDelete(id) ==
    /\ talleres[id].existe
    /\ talleres' = [talleres EXCEPT ![id].activo = FALSE]
    /\ UNCHANGED <<inscripciones, pc, args, res, ret, lector, reloj, borrar, peticion, usuarios, emergencia, consulta>>

(* ---- administrator routes ------------------------------------------- *)
\* POST /api/admin/talleres: a fresh id (the id of a deleted workshop is not
\* given again), the table's default activo
AdminPostTaller(cupo_maximo) ==
    /\ cupo_maximo # 0
    /\ \E id \in TallerIds :
          /\ ~talleres[id].existe /\ id \notin borrar.idos
          /\ \A j \in TallerIds : j < id => (talleres[j].existe \/ j \in borrar.idos)
          /\ talleres' = [talleres EXCEPT ![id] =
                 [existe |-> TRUE, cupo_maximo |-> cupo_maximo, activo |-> ActivoInicial]]
    /\ UNCHANGED <<inscripciones, pc, args, res, ret, lector, reloj, borrar, peticion, usuarios, emergencia, consulta>>

\* PUT /api/admin/talleres/:id
AdminPutTaller(id, body) ==
    /\ ~(body.cupo_maximo = <<>> /\ body.activo = <<>>)
    /\ talleres[id].existe
    /\ talleres' = [talleres EXCEPT ![id] = Patched(@, body)]
    /\ UNCHANGED <<inscripciones, pc, args, res, ret, lector, reloj, borrar, peticion, usuarios, emergencia, consulta>>

\* PUT /api/admin/talleres/:id/status
AdminPutTallerStatus(id, activo) ==
    /\ talleres[id].existe
    /\ talleres' = [talleres EXCEPT ![id].activo = activo]
    /\ UNCHANGED <<inscripciones, pc, args, res, ret, lector, reloj, borrar, peticion, usuarios, emergencia, consulta>>

\* DELETE /api/admin/talleres/:id, first query: the active enrollments of
\* the workshop are counted; any of them answers 400
AdminDeleteCount(id) ==
    /\ borrar.pc = "idle"
    /\ IF Cardinality(ActivasDeTaller(id)) > 0
       THEN borrar' = [borrar EXCEPT !.status = 400]
       ELSE borrar' = [borrar EXCEPT !.pc = "delete", !.taller_id = id, !.status = 0]
    /\ UNCHANGED <<talleres, inscripciones, pc, args, res, ret, lector, reloj, peticion, usuarios, emergencia, consulta>>

\* second query: DELETE FROM talleres WHERE id = $1 RETURNING *
AdminDeleteDelete ==
    /\ borrar.pc = "delete"
    /\ IF talleres[borrar.taller_id].existe
       THEN /\ talleres' = [talleres EXCEPT ![borrar.taller_id] = NoTaller]
            /\ borrar' = [pc |-> "idle", taller_id |-> 0, status |-> 200,
                          idos |-> borrar.idos \cup {borrar.taller_id}]
       ELSE /\ UNCHANGED talleres
            /\ borrar' = [borrar EXCEPT !.pc = "idle", !.taller_id = 0, !.status = 404]
    /\ UNCHANGED <<inscripciones, pc, args, res, ret, lector, reloj, peticion, usuarios, emergencia, consulta>>


(* ---- UserModel ------------------------------------------------------- *)
\* column default of usuarios.activo: the INSERTs do not name the column
UsuarioActivoInicial == TRUE

\* the rows a statement outside the writing transaction sees
UsuarioVisible(u) == usuarios[u].existe /\ usuarios[u].tx = 0

\* ids are given in order
IdNuevo(u) ==
    ~usuarios[u].existe /\ \A j \in UsuarioIds : j < u => usuarios[j].existe

\* the profile table of a type of user, <<>> for a type without profile
PerfilDe(tipo) ==
    IF tipo = "alumno" THEN <<"perfiles_alumno">>
    ELSE IF tipo = "instructor" THEN <<"perfiles_instructor">>
    ELSE <<>>

NuevoUsuario(tipo, tx) ==
    [existe |-> TRUE, activo |-> UsuarioActivoInicial, tipo_usuario |-> tipo,
     perfil |-> <<>>, tx |-> tx]

\* UserModel.createUser: one INSERT through the pool, no profile
CreateUser(tipo) ==
    /\ \E u \in UsuarioIds :
          IdNuevo(u) /\ usuarios' = [usuarios EXCEPT ![u] = NuevoUsuario(tipo, 0)]
    /\ UNCHANGED <<talleres, inscripciones, pc, args, res, ret, lector, reloj,
                   borrar, peticion, emergencia, consulta>>

\* UserModel.createUserWithProfile, one step per round-trip; the rows its
\* transaction has written carry tx = 1 until COMMIT
EnCurso == {u \in UsuarioIds : usuarios[u].existe /\ usuarios[u].tx # 0}

\* the INSERT of the user sent through the pool: it commits on its own
CrearInsertUsuarioFueraDeTx(tipo) ==
    /\ EnCurso = {}
    /\ \E u \in UsuarioIds :
          IdNuevo(u) /\ usuarios' = [usuarios EXCEPT ![u] = NuevoUsuario(tipo, 0)]
    /\ UNCHANGED <<talleres, inscripciones, pc, args, res, ret, lector, reloj,
                   borrar, peticion, emergencia, consulta>>

CrearInsertUsuario(tipo) ==
    /\ EnCurso = {}
    /\ \E u \in UsuarioIds :
          IdNuevo(u) /\ usuarios' = [usuarios EXCEPT ![u] = NuevoUsuario(tipo, 1)]
    /\ UNCHANGED <<talleres, inscripciones, pc, args, res, ret, lector, reloj,
                   borrar, peticion, emergencia, consulta>>

CrearInsertPerfil ==
    /\ \E u \in EnCurso :
          /\ usuarios[u].perfil = <<>> /\ PerfilDe(usuarios[u].tipo_usuario) # <<>>
          /\ usuarios' = [usuarios EXCEPT ![u].perfil = PerfilDe(usuarios[u].tipo_usuario)]
    /\ UNCHANGED <<talleres, inscripciones, pc, args, res, ret, lector, reloj,
                   borrar, peticion, emergencia, consulta>>

CrearCommit ==
    /\ \E u \in EnCurso :
          /\ usuarios[u].perfil = PerfilDe(usuarios[u].tipo_usuario)
          /\ usuarios' = [usuarios EXCEPT ![u].tx = 0]
    /\ UNCHANGED <<talleres, inscripciones, pc, args, res, ret, lector, reloj,
                   borrar, peticion, emergencia, consulta>>

\* A statement of the transaction throws (a duplicate numero_control, a lost
\* connection): transaction() rolls back what was written and rethrows.
CrearFalla ==
    /\ \E u \in EnCurso : usuarios' = [usuarios EXCEPT ![u] = NoUsuario]
    /\ UNCHANGED <<talleres, inscripciones, pc, args, res, ret, lector, reloj,
                   borrar, peticion, emergencia, consulta>>

\* UPDATE usuarios SET activo = $1 WHERE id = $2, and its rowCount > 0
ConActivo(u, activo) ==
    IF UsuarioVisible(u) THEN [usuarios EXCEPT ![u].activo = activo] ELSE usuarios

\* UserModel.updateStatus
UpdateStatus(u, activo) ==
    /\ usuarios' = ConActivo(u, activo)
    /\ ret' = [op |-> "updateStatus", val |-> UsuarioVisible(u)]
    /\ UNCHANGED <<talleres, inscripciones, pc, args, res, lector, reloj,
                   borrar, peticion, emergencia, consulta>>


(* ---- InformacionEmergencia ------------------------------------------ *)
\* the data of a call: a required field and an optional one, "" as <<>>
DatosEmergencia ==
    [contacto_emergencia_nombre : {<<"Ana">>, <<"Luz">>},
     tipo_sangre : {<<>>, <<"O+">>}]

\* value || null
OrNull(valor) == IF Truthy(valor) THEN valor ELSE NULL

ColumnasEmergencia(data) ==
    [contacto_emergencia_nombre |-> data.contacto_emergencia_nombre,
     tipo_sangre |-> OrNull(data.tipo_sangre)]

\* InformacionEmergencia.create: ids are given in order and never again
EmergenciaCreate(alumnoId, data) ==
    /\ \E id \in EmergenciaIds :
          /\ ~emergencia[id].usada
          /\ \A j \in EmergenciaIds : j < id => emergencia[j].usada
          /\ emergencia' = [emergencia EXCEPT ![id] =
                 [existe |-> TRUE, usada |-> TRUE, alumno_id |-> alumnoId,
                  datos |-> ColumnasEmergencia(data), updated_at |-> 0]]
          /\ ret' = [op |-> "emergencia.create", val |-> <<emergencia'[id]>>,
                     id |-> id, alumno_id |-> alumnoId]
    /\ UNCHANGED <<talleres, inscripciones, pc, args, res, lector, reloj,
                   borrar, peticion, usuarios, consulta>>

\* a WHERE clause that names the row and forgets its owner
EmergenciaWhereSoloId(id, alumnoId) == emergencia[id].existe

\* WHERE id = $10 AND alumno_id = $11, WHERE id = $1 AND alumno_id = $2
EmergenciaWhere(id, alumnoId) ==
    emergencia[id].existe /\ emergencia[id].alumno_id = alumnoId

\* InformacionEmergencia.update; the returned value rows[0] || null is
\* <<row>> or <<>>; updated_at = 1 is a row an update has stamped
EmergenciaUpdate(id, alumnoId, data) ==
    /\ emergencia' =
           IF EmergenciaWhere(id, alumnoId)
           THEN [emergencia EXCEPT ![id].datos = ColumnasEmergencia(data),
                                   ![id].updated_at = 1]
           ELSE emergencia
    /\ ret' = [op |-> "emergencia.update",
               val |-> IF EmergenciaWhere(id, alumnoId)
                       THEN <<emergencia'[id]>> ELSE <<>>,
               id |-> id, alumno_id |-> alumnoId]
    /\ UNCHANGED <<talleres, inscripciones, pc, args, res, lector, reloj,
                   borrar, peticion, usuarios, consulta>>

\* InformacionEmergencia.delete
EmergenciaDelete(id, alumnoId) ==
    /\ emergencia' =
           IF EmergenciaWhere(id, alumnoId)
           THEN [emergencia EXCEPT ![id].existe = FALSE]
           ELSE emergencia
    /\ ret' = [op |-> "emergencia.delete",
               val |-> IF EmergenciaWhere(id, alumnoId)
                       THEN <<emergencia[id]>> ELSE <<>>,
               id |-> id, alumno_id |-> alumnoId]
    /\ UNCHANGED <<talleres, inscripciones, pc, args, res, lector, reloj,
                   borrar, peticion, usuarios, consulta>>


(* ---- dynamic UPDATE builders ---------------------------------------- *)
\* The keys a caller may send: some in every whitelist, some in a few, one
\* in none. An object is the sequence of its entries, as Object.entries
\* gives them, each key at most once.
Claves == {"nombre", "activo", "titulo", "rol"}
ValoresDe(key) == IF key = "activo" THEN BOOLEAN ELSE {<<"v">>, NULL}

RECURSIVE Objetos(_)
Objetos(keys) ==
    {<<>>} \cup
    UNION {{<<[key |-> k, value |-> v]>> \o resto :
               v \in ValoresDe(k), resto \in Objetos(keys \ {k})} : k \in keys}

UpdateDatas == Objetos(Claves)

AllowedTaller ==
    <<"nombre", "descripcion", "categoria", "instructor_id", "cupo_maximo",
      "horario", "lugar", "activo">>
AllowedAviso == <<"titulo", "contenido", "importante", "fecha_expiracion", "activo">>
AllowedCalendario == <<"titulo", "descripcion", "fecha_evento", "tipo_evento", "activo">>

Rango(seq) == {seq[i] : i \in 1..Len(seq)}

\* a builder that takes every key of the object
IncludesSiempre(allowedFields, key) == TRUE

\* allowedFields.includes(key)
Includes(allowedFields, key) == key \in Rango(allowedFields)

\* the loop over Object.entries(updateData); `${key} = $${paramCount}` is
\* the clause [campo |-> key, n |-> paramCount]
RECURSIVE Construir(_, _, _)
Construir(entries, allowedFields, acc) ==
    IF entries = <<>> THEN acc
    ELSE LET e == Head(entries) IN
         Construir(Tail(entries), allowedFields,
             IF Includes(allowedFields, e.key)
             THEN [updateFields |-> Append(acc.updateFields,
                                      [campo |-> e.key, n |-> acc.paramCount + 1]),
                   params |-> Append(acc.params, e.value),
                   paramCount |-> acc.paramCount + 1]
             ELSE acc)

\* what a model's update does after the loop: it throws, or sends the
\* statement with the id as its last parameter
ModelUpdate(op, allowedFields, fijo, id, updateData) ==
    LET b == Construir(updateData, allowedFields,
                 [updateFields |-> <<>>, params |-> <<>>, paramCount |-> 0])
    IN  IF Len(b.updateFields) = 0
        THEN [op |-> op, id |-> id, data |-> updateData, error |-> TRUE,
              set |-> <<>>, fijo |-> <<>>, values |-> <<>>, where |-> 0]
        ELSE [op |-> op, id |-> id, data |-> updateData, error |-> FALSE,
              set |-> b.updateFields, fijo |-> fijo,
              values |-> Append(b.params, id), where |-> b.paramCount + 1]

TallerModelUpdate(id, updateData) ==
    /\ consulta = NoConsulta
    /\ consulta' = ModelUpdate("TallerModel.update", AllowedTaller,
                               <<"updated_at = CURRENT_TIMESTAMP">>, id, updateData)
    /\ UNCHANGED <<talleres, inscripciones, pc, args, res, ret, lector, reloj,
                   borrar, peticion, usuarios, emergencia>>

AvisoModelUpdate(id, updateData) ==
    /\ consulta = NoConsulta
    /\ consulta' = ModelUpdate("AvisoModel.update", AllowedAviso, <<>>, id, updateData)
    /\ UNCHANGED <<talleres, inscripciones, pc, args, res, ret, lector, reloj,
                   borrar, peticion, usuarios, emergencia>>

CalendarioModelUpdate(id, updateData) ==
    /\ consulta = NoConsulta
    /\ consulta' = ModelUpdate("CalendarioModel.update", AllowedCalendario, <<>>, id,
                               updateData)
    /\ UNCHANGED <<talleres, inscripciones, pc, args, res, ret, lector, reloj,
                   borrar, peticion, usuarios, emergencia>>

\* req.body.campo: <<value>>, or <<>> for undefined
Campo(body, campo) ==
    LET es == {i \in 1..Len(body) : body[i].key = campo}
    IN  IF es = {} THEN <<>> ELSE <<body[CHOOSE i \in es : TRUE].value>>

\* PUT /api/admin/talleres/:id: one `if (campo !== undefined)` after another,
\* paramCount starting at 1 and counted up after each clause
RECURSIVE PutTallerUpdates(_, _, _)
PutTallerUpdates(campos, body, acc) ==
    IF campos = <<>> THEN acc
    ELSE LET campo == Head(campos) IN
         PutTallerUpdates(Tail(campos), body,
             IF Campo(body, campo) # <<>>
             THEN [updates |-> Append(acc.updates,
                                 [campo |-> campo, n |-> acc.paramCount]),
                   values |-> Append(acc.values, Campo(body, campo)[1]),
                   paramCount |-> acc.paramCount + 1]
             ELSE acc)

\* the statement of the handler, or its 400 'Sin cambios'
AdminPutTallerConsulta(id, body) ==
    /\ consulta = NoConsulta
    /\ LET b == PutTallerUpdates(AllowedTaller, body,
                    [updates |-> <<>>, values |-> <<>>, paramCount |-> 1])
       IN  consulta' =
               IF Len(b.updates) = 0
               THEN [op |-> "PUT /api/admin/talleres/:id", id |-> id, data |-> body,
                     error |-> TRUE, set |-> <<>>, fijo |-> <<>>, values |-> <<>>,
                     where |-> 0]
               ELSE [op |-> "PUT /api/admin/talleres/:id", id |-> id, data |-> body,
                     error |-> FALSE, set |-> b.updates, fijo |-> <<>>,
                     values |-> Append(b.values, id), where |-> b.paramCount]
    /\ UNCHANGED <<talleres, inscripciones, pc, args, res, ret, lector, reloj,
                   borrar, peticion, usuarios, emergencia>>

\* the call returns, the response is sent
ConsultaTermina ==
    /\ consulta # NoConsulta
    /\ consulta' = NoConsulta
    /\ UNCHANGED <<talleres, inscripciones, pc, args, res, ret, lector, reloj,
                   borrar, peticion, usuarios, emergencia>>


(* ---- the requests and their middleware chains ------------------------ *)
\* What a request brings: its route, the :id of its path (0 for a text that
\* is no UUID; the id of a user, or of a workshop), what jwt.verify makes of
\* the Authorization header and the userId the token names, whether its body
\* parses as JSON, and body.activo (<<>> when it is no boolean).
Tokens       == {"none", "invalid", "expired", "valid"}
TiposUsuario == {"admin", "instructor", "alumno", "otro"}
Rutas ==
    {"POST /api/talleres/:id/inscripcion", "GET /api/talleres/estadisticas",
     "PUT /api/admin/usuarios/:id/status", "DELETE /api/admin/usuarios/:id",
     "GET /api/nada"}
Entradas ==
    [ruta : Rutas, id : {0} \cup UsuarioIds, token : Tokens, userId : UsuarioIds,
     json : BOOLEAN, activo : Opt(BOOLEAN)]

\* the middlewares and the handler of each route, in the order of the router
Cadena(ruta) ==
    CASE ruta = "POST /api/talleres/:id/inscripcion" ->
           <<"validateUUIDParam", "authenticateToken", "authorizeAlumnoAccess",
             "sanitizeRequest", "inscribirseATaller">>
      [] ruta = "GET /api/talleres/estadisticas" ->
           <<"authenticateToken", "authorize", "getEstadisticas">>
      [] ruta = "PUT /api/admin/usuarios/:id/status" ->
           <<"validateUUIDParam", "authenticateToken", "authorize", "putUsuarioStatus">>
      [] ruta = "DELETE /api/admin/usuarios/:id" ->
           <<"validateUUIDParam", "authenticateToken", "authorize", "deleteUsuario">>
      [] OTHER -> <<"notFound">>

\* the arguments of authorize(...) on each route
AllowedTypes(ruta) ==
    IF ruta = "GET /api/talleres/estadisticas" THEN {"admin", "instructor"}
    ELSE {"admin"}

\* res.status(status).json(body): one more write of a response; the client
\* has the first one
Enviar(status, body) ==
    [peticion EXCEPT !.envios = @ + 1,
                     !.status = IF peticion.envios = 0 THEN status ELSE @,
                     !.body   = IF peticion.envios = 0 THEN body ELSE @]

Responder(status, error) ==
    [Enviar(status, [error |-> error]) EXCEPT !.pc = "respondido"]

\* next()
Siguiente ==
    LET c == Cadena(peticion.entrada.ruta)
        i == CHOOSE i \in 1..Len(c) : c[i] = peticion.pc
    IN  [peticion EXCEPT !.pc = c[i + 1]]

\* A request arrives when the one before has been answered or has reached a
\* controller; a token that verifies was issued to a user of the table.
Llega(entrada) ==
    /\ peticion.pc \in {"idle", "respondido", "inscribirseATaller", "getEstadisticas"}
    /\ entrada.token = "valid" => UsuarioVisible(entrada.userId)
    /\ peticion' = [NoPeticion EXCEPT !.pc = "limiter", !.entrada = entrada]
    /\ UNCHANGED <<talleres, inscripciones, pc, args, res, ret, lector, reloj,
                   borrar, usuarios, emergencia, consulta>>

\* app.use('/api/', limiter): 429 with its message over the limit
Limiter(excedido) ==
    /\ peticion.pc = "limiter"
    /\ peticion' = IF excedido THEN Responder(429, "Demasiadas solicitudes")
                   ELSE [peticion EXCEPT !.pc = "express.json"]
    /\ UNCHANGED <<talleres, inscripciones, pc, args, res, ret, lector, reloj,
                   borrar, usuarios, emergencia, consulta>>

\* what the body parser passes to next() when verify throws: the thrown
\* Error, with status and statusCode 403
ErrorDeVerify ==
    [name |-> "Error", code |-> "none", statusCode |-> <<403>>, status |-> <<403>>,
     message |-> <<"JSON invalido">>, stack |-> <<"Error: JSON invalido at verify">>]

\* express.json with its verify callback: a body that does not parse is
\* answered 400 by the callback, which then throws
ExpressJson ==
    /\ peticion.pc = "express.json"
    /\ peticion' =
         IF peticion.entrada.json
         THEN [peticion EXCEPT !.pc = Cadena(peticion.entrada.ruta)[1]]
         ELSE [Enviar(400, [error |-> "JSON invalido"]) EXCEPT
                  !.pc = "errorHandler", !.err = <<ErrorDeVerify>>]
    /\ UNCHANGED <<talleres, inscripciones, pc, args, res, ret, lector, reloj,
                   borrar, usuarios, emergencia, consulta>>

\* app.use((req, res) => res.status(404)...), after every router
NotFound ==
    /\ peticion.pc = "notFound"
    /\ peticion' = Responder(404, "Ruta no encontrada")
    /\ UNCHANGED <<talleres, inscripciones, pc, args, res, ret, lector, reloj,
                   borrar, usuarios, emergencia, consulta>>

\* validateUUIDParam('id'): param('id').isUUID(), handleValidationErrors
ValidateUUIDParam ==
    /\ peticion.pc = "validateUUIDParam"
    /\ peticion' = IF peticion.entrada.id # 0
                   THEN Siguiente
                   ELSE Responder(400, "Error de validacion")
    /\ UNCHANGED <<talleres, inscripciones, pc, args, res, ret, lector, reloj,
                   borrar, usuarios, emergencia, consulta>>

\* a middleware that lets the deactivated through
InactivoNunca(user) == FALSE

\* !user.activo
Inactivo(user) == ~user.activo

\* falla: the query to usuarios throws
AuthenticateToken(falla) ==
    /\ peticion.pc = "authenticateToken"
    /\ LET e == peticion.entrada
           user == usuarios[e.userId]
       IN  peticion' =
             IF e.token = "none" THEN Responder(401, "Token de acceso requerido")
             ELSE IF e.token = "invalid" THEN Responder(401, "Token invalido")
             ELSE IF e.token = "expired" THEN Responder(401, "Token expirado")
             ELSE IF falla THEN Responder(500, "Error interno")
             ELSE IF ~UsuarioVisible(e.userId)
             THEN Responder(401, "Usuario no encontrado")
             ELSE IF Inactivo(user) THEN Responder(401, "Usuario inactivo")
             ELSE [Siguiente EXCEPT
                      !.user = <<[id |-> e.userId, tipo_usuario |-> user.tipo_usuario,
                                  activo |-> user.activo]>>]
    /\ UNCHANGED <<talleres, inscripciones, pc, args, res, ret, lector, reloj,
                   borrar, usuarios, emergencia, consulta>>

\* a middleware that lets every authenticated user through
IncludesTipoSiempre(allowedTypes, tipo) == TRUE

\* allowedTypes.includes(req.user.tipo_usuario)
IncludesTipo(allowedTypes, tipo) == tipo \in allowedTypes

\* authorize(...allowedTypes)
Authorize ==
    /\ peticion.pc = "authorize"
    /\ peticion' =
         IF peticion.user = <<>> THEN Responder(401, "Usuario no autenticado")
         ELSE IF ~IncludesTipo(AllowedTypes(peticion.entrada.ruta),
                               peticion.user[1].tipo_usuario)
         THEN Responder(403, "Acceso denegado")
         ELSE Siguiente
    /\ UNCHANGED <<talleres, inscripciones, pc, args, res, ret, lector, reloj,
                   borrar, usuarios, emergencia, consulta>>

\* falla: the query to perfiles_alumno throws; the profile of user u has id u
AuthorizeAlumnoAccess(falla) ==
    /\ peticion.pc = "authorizeAlumnoAccess"
    /\ peticion' =
         IF peticion.user = <<>> THEN Responder(401, "Usuario no autenticado")
         ELSE IF peticion.user[1].tipo_usuario \in {"admin", "instructor"}
         THEN Siguiente
         ELSE IF peticion.user[1].tipo_usuario # "alumno"
         THEN Responder(403, "Acceso denegado")
         ELSE IF falla THEN Responder(500, "Error interno")
         ELSE IF ~(/\ UsuarioVisible(peticion.user[1].id)
                   /\ usuarios[peticion.user[1].id].perfil = <<"perfiles_alumno">>)
         THEN Responder(404, "Perfil no encontrado")
         ELSE [Siguiente EXCEPT !.alumno = <<peticion.user[1].id>>]
    /\ UNCHANGED <<talleres, inscripciones, pc, args, res, ret, lector, reloj,
                   borrar, usuarios, emergencia, consulta>>

\* sanitizeRequest rewrites the strings of the request and calls next():
\* the handler TallerController.inscribirseATaller runs
SanitizeRequest ==
    /\ peticion.pc = "sanitizeRequest"
    /\ peticion' = Siguiente
    /\ UNCHANGED <<talleres, inscripciones, pc, args, res, ret, lector, reloj,
                   borrar, usuarios, emergencia, consulta>>

(* ---- /api/admin/usuarios --------------------------------------------- *)
\* a handler that does not know its caller
EsPropioNunca(id, user) == FALSE

\* id === req.user.id
EsPropio(id, user) == id = user.id

\* PUT /api/admin/usuarios/:id/status; falla: updateStatus throws
PutUsuarioStatus(falla) ==
    /\ peticion.pc = "putUsuarioStatus"
    /\ LET id == peticion.entrada.id
           activo == peticion.entrada.activo
       IN  IF activo = <<>>
           THEN peticion' = Responder(400, "Parametro invalido") /\ UNCHANGED usuarios
           ELSE IF EsPropio(id, peticion.user[1]) /\ ~activo[1]
           THEN peticion' = Responder(400, "Operacion no permitida") /\ UNCHANGED usuarios
           ELSE IF falla
           THEN peticion' = Responder(500, "Error interno del servidor")
                /\ UNCHANGED usuarios
           ELSE /\ usuarios' = ConActivo(id, activo[1])
                /\ peticion' = IF UsuarioVisible(id) THEN Responder(200, "")
                               ELSE Responder(404, "Usuario no encontrado")
    /\ UNCHANGED <<talleres, inscripciones, pc, args, res, ret, lector, reloj,
                   borrar, emergencia, consulta>>

\* DELETE /api/admin/usuarios/:id up to its first query, the count of the
\* active workshops of the user as instructor; asignados: the count is not
\* 0, which takes an instructor's profile and an active workshop
DeleteUsuarioTalleres(asignados) ==
    /\ peticion.pc = "deleteUsuario"
    /\ asignados => /\ usuarios[peticion.entrada.id].perfil = <<"perfiles_instructor">>
                    /\ \E t \in TallerIds : talleres[t].existe /\ talleres[t].activo
    /\ peticion' =
         IF EsPropio(peticion.entrada.id, peticion.user[1])
         THEN Responder(400, "Operacion no permitida")
         ELSE IF asignados THEN Responder(400, "Operacion no permitida")
         ELSE [peticion EXCEPT !.pc = "deleteUsuario.inscripciones"]
    /\ UNCHANGED <<talleres, inscripciones, pc, args, res, ret, lector, reloj,
                   borrar, usuarios, emergencia, consulta>>

\* ... JOIN perfiles_alumno pa ... WHERE pa.usuario_id = $1 AND i.estado = 'activo'
InscripcionesDeUsuario(u, estado) ==
    {i \in Ids : /\ Committed(inscripciones[i])
                 /\ usuarios[u].perfil = <<"perfiles_alumno">>
                 /\ inscripciones[i].alumno_id = u
                 /\ inscripciones[i].estado = estado}

\* the second query, the count of the user's enrollments
DeleteUsuarioInscripciones ==
    /\ peticion.pc = "deleteUsuario.inscripciones"
    /\ peticion' =
         IF Cardinality(InscripcionesDeUsuario(peticion.entrada.id, "activo")) > 0
         THEN Responder(400, "Operacion no permitida")
         ELSE [peticion EXCEPT !.pc = "deleteUsuario.deleteUser"]
    /\ UNCHANGED <<talleres, inscripciones, pc, args, res, ret, lector, reloj,
                   borrar, usuarios, emergencia, consulta>>

\* UserModel.deleteUser: UPDATE usuarios SET activo = false WHERE id = $1
DeleteUsuarioDeleteUser ==
    /\ peticion.pc = "deleteUsuario.deleteUser"
    /\ usuarios' = ConActivo(peticion.entrada.id, FALSE)
    /\ peticion' = IF UsuarioVisible(peticion.entrada.id) THEN Responder(200, "")
                   ELSE Responder(404, "Usuario no encontrado")
    /\ UNCHANGED <<talleres, inscripciones, pc, args, res, ret, lector, reloj,
                   borrar, emergencia, consulta>>


(* ---- global error handler (server.js) -------------------------------- *)
\* The errors that reach app.use((err, req, res, next) => ...): name, code,
\* statusCode and status as the thrower set them (<<>> when unset), a message
\* that may be empty, and a stack.
Errores ==
    [name : {"Error", "ValidationError", "JsonWebTokenError", "TokenExpiredError"},
     code : {"none", "23505", "23503", "ECONNREFUSED"},
     statusCode : Opt({404, 503}), status : Opt({502}),
     message : {<<>>, <<"connect ECONNREFUSED 10.0.0.5:5432">>},
     stack : {<<"Error: ... at Pool.query (pg-pool/index.js)">>}]

NodeEnvs == {"production", "development", "test", "unset"}

MensajeGenerico == <<"Error interno del servidor">>

\* JS: a || b for texts, and for an optional number
OrTexto(a, b)  == IF Truthy(a) THEN a ELSE b
OrNumero(a, b) == IF a # <<>> THEN a ELSE b

\* the response of the handler: its status and its JSON body (a key the
\* body does not have is <<>>)
GlobalErrorResponse(err, nodeEnv) ==
    IF err.name = "ValidationError"
    THEN [status |-> 400, error |-> "Error de validacion",
          message |-> <<>>, details |-> <<err.message>>, stack |-> <<>>]
    ELSE IF err.name = "JsonWebTokenError"
    THEN [status |-> 401, error |-> "Token invalido",
          message |-> <<<<"Por favor, inicia sesion nuevamente">>>>,
          details |-> <<>>, stack |-> <<>>]
    ELSE IF err.name = "TokenExpiredError"
    THEN [status |-> 401, error |-> "Token expirado",
          message |-> <<<<"Tu sesion ha expirado">>>>, details |-> <<>>, stack |-> <<>>]
    ELSE IF err.code = "23505"
    THEN [status |-> 409, error |-> "Conflicto de datos",
          message |-> <<<<"Ya existe un registro con estos datos">>>>,
          details |-> <<>>, stack |-> <<>>]
    ELSE IF err.code = "23503"
    THEN [status |-> 400, error |-> "Error de referencia",
          message |-> <<<<"No se puede completar la operacion">>>>,
          details |-> <<>>, stack |-> <<>>]
    ELSE [status  |-> OrNumero(err.statusCode, OrNumero(err.status, <<500>>))[1],
          error   |-> "Error del servidor",
          message |-> <<IF nodeEnv = "production" THEN MensajeGenerico
                        ELSE OrTexto(err.message, MensajeGenerico)>>,
          details |-> <<>>,
          stack   |-> IF nodeEnv = "development" THEN <<err.stack>> ELSE <<>>]

GlobalErrorHandler(err, nodeEnv) ==
    /\ \/ peticion.pc = "idle"
       \/ peticion.pc = "errorHandler" /\ peticion.err = <<err>>
    /\ peticion' = [Enviar(GlobalErrorResponse(err, nodeEnv).status,
                           GlobalErrorResponse(err, nodeEnv)) EXCEPT
           !.pc = "respondido",
           !.entrada = IF peticion.pc = "idle"
                       THEN [err |-> err, NODE_ENV |-> nodeEnv] ELSE @]
    /\ UNCHANGED <<talleres, inscripciones, pc, args, res, ret, lector, reloj,
                   borrar, usuarios, emergencia, consulta>>


(* ---- specifications ------------------------------------------------- *)
Init ==
    /\ talleres = [t \in TallerIds |-> NoTaller]
    /\ inscripciones = <<>>
    /\ pc = [c \in Calls |-> "idle"]
    /\ args = [c \in Calls |-> NoArgs]
    /\ res = [c \in Calls |-> NoRes]
    /\ ret = NoRet
    /\ lector = NoLector
    /\ reloj = 0
    /\ borrar = NoBorrar
    /\ peticion = NoPeticion
    /\ usuarios = [u \in UsuarioIds |-> NoUsuario]
    /\ emergencia = [e \in EmergenciaIds |-> NoEmergencia]
    /\ consulta = NoConsulta

\* InscripcionModel.create, one step per round-trip
Inscribir(Coms) ==
    \/ \E c \in Calls, a \in Alumnos, t \in TallerIds, com \in Coms :
          CreateBegin(c, a, t, com)
    \/ \E c \in Calls : CreateSelectActiva(c)
    \/ \E c \in Calls : CreateSelectCupo(c)
    \/ \E c \in Calls : CreateInsert(c)
    \/ \E c \in Calls : CreateCommit(c)

\* the administrator's and the workshop model's updates of a workshop
Administrar ==
    \/ \E id \in TallerIds, p \in Patches : TallerUpdate(id, p)
    \/ \E id \in TallerIds : TallerDelete(id)
    \/ \E id \in TallerIds, p \in Patches : AdminPutTaller(id, p)
    \/ \E id \in TallerIds, activo \in BOOLEAN : AdminPutTallerStatus(id, activo)

\* the reads
Consultar ==
    \/ \E a \in Alumnos, t \in TallerIds : VerificarSelectActiva(a, t)
    \/ VerificarSelectCupo
    \/ \E t \in TallerIds : VerificarCupoDisponible(t)

\* Enrollment, cancellation, state updates and workshop administration.
Next ==
    \/ \E cupo \in 0..MaxCupo : AdminPostTaller(cupo)
    \/ Inscribir({NULL})
    \/ \E id \in RowIds : Cancelar(id, NULL)
    \/ \E id \in RowIds, e \in Estados : UpdateEstado(id, e, NULL)
    \/ Administrar

Spec == Init /\ [][Next]_vars

\* Enrollment alone: workshops are created, students enroll.
NextEnroll ==
    \/ \E cupo \in 0..MaxCupo : AdminPostTaller(cupo)
    \/ Inscribir({NULL})

SpecEnroll == Init /\ [][NextEnroll]_vars

\* The comments of an enrollment: every text the callers can pass.
NextCancelar ==
    \/ \E cupo \in 0..MaxCupo : AdminPostTaller(cupo)
    \/ Inscribir(ComentariosCreate)
    \/ \E id \in RowIds, motivo \in Motivos : Cancelar(id, motivo)
    \/ \E id \in RowIds, e \in Estados, com \in ComentariosUpdate : UpdateEstado(id, e, com)

SpecCancelar == Init /\ [][NextCancelar]_vars

\* Enrollment and cancellation: the seats of a workshop taken and freed.
NextCupo ==
    \/ \E cupo \in 0..MaxCupo : AdminPostTaller(cupo)
    \/ Inscribir({NULL})
    \/ \E id \in RowIds : Cancelar(id, NULL)

SpecCupo == Init /\ [][NextCupo]_vars

\* The reads, interleaved with enrollment.
NextLectura ==
    \/ \E cupo \in 0..MaxCupo : AdminPostTaller(cupo)
    \/ Inscribir({NULL})
    \/ Consultar

SpecLectura == Init /\ [][NextLectura]_vars

\* verificarPuedeInscribirse alone, interleaved with enrollment.
NextVeredicto ==
    \/ \E cupo \in 0..MaxCupo : AdminPostTaller(cupo)
    \/ Inscribir({NULL})
    \/ \E a \in Alumnos, t \in TallerIds : VerificarSelectActiva(a, t)
    \/ VerificarSelectCupo

SpecVeredicto == Init /\ [][NextVeredicto]_vars

\* Enrollment with store failures at any round-trip.
NextFalla ==
    \/ \E cupo \in 0..MaxCupo : AdminPostTaller(cupo)
    \/ Inscribir({NULL})
    \/ \E c \in Calls : CreateFalla(c)

SpecFalla == Init /\ [][NextFalla]_vars


\* The comments of one student's enrollments in one workshop: created with no
\* comment, an empty one or a text, then cancelled with every kind of motivo.
ComentariosPrevios == ComentariosCreate \cup {<<>>}

NextComentario ==
    \/ AdminPostTaller(MaxCupo)
    \/ \E c \in Calls, com \in ComentariosPrevios : CreateBegin(c, 1, 1, com)
    \/ \E c \in Calls : CreateSelectActiva(c)
    \/ \E c \in Calls : CreateSelectCupo(c)
    \/ \E c \in Calls : CreateInsert(c)
    \/ \E c \in Calls : CreateCommit(c)
    \/ \E id \in RowIds, motivo \in Motivos : Cancelar(id, motivo)

SpecComentario == Init /\ [][NextComentario]_vars


\* The administrator deletes workshops while students enroll.
NextBorrar ==
    \/ \E cupo \in 0..MaxCupo : AdminPostTaller(cupo)
    \/ Inscribir({NULL})
    \/ \E id \in TallerIds : AdminDeleteCount(id)
    \/ AdminDeleteDelete

SpecBorrar == Init /\ [][NextBorrar]_vars


\* Workshops are deactivated and reactivated while students enroll.
NextDesactivar ==
    \/ \E cupo \in 0..MaxCupo : AdminPostTaller(cupo)
    \/ Inscribir({NULL})
    \/ \E id \in TallerIds : TallerDelete(id)
    \/ \E id \in TallerIds, activo \in BOOLEAN : AdminPutTallerStatus(id, activo)

SpecDesactivar == Init /\ [][NextDesactivar]_vars


\* One request to POST /api/talleres/:id/inscripcion through its chain.
EntradasInscripcion ==
    {e \in Entradas : /\ e.ruta = "POST /api/talleres/:id/inscripcion"
                      /\ e.json /\ e.activo = <<>>}

\* the creation of users of every type, with and without profile, and the
\* switch of their activo
Usuarios ==
    \/ \E tipo \in TiposUsuario : CreateUser(tipo)
    \/ \E tipo \in TiposUsuario : CrearInsertUsuario(tipo)
    \/ CrearInsertPerfil
    \/ CrearCommit
    \/ CrearFalla
    \/ \E u \in UsuarioIds, activo \in BOOLEAN : UpdateStatus(u, activo)

NextInscripcionHttp ==
    \/ Usuarios
    \/ \E entrada \in EntradasInscripcion : Llega(entrada)
    \/ \E excedido \in BOOLEAN : Limiter(excedido)
    \/ ExpressJson
    \/ ValidateUUIDParam
    \/ \E falla \in BOOLEAN : AuthenticateToken(falla)
    \/ \E falla \in BOOLEAN : AuthorizeAlumnoAccess(falla)
    \/ SanitizeRequest

SpecInscripcionHttp == Init /\ [][NextInscripcionHttp]_vars


\* An error reaches the global error handler.
NextErrores ==
    \E err \in Errores, nodeEnv \in NodeEnvs : GlobalErrorHandler(err, nodeEnv)

SpecErrores == Init /\ [][NextErrores]_vars


\* One operation at a time.  Workshops are created and switched on and off
\* and students enroll, each call running to its end before the next begins;
\* then a client asks verificarPuedeInscribirse for the arguments of a call
\* that has just begun, and the call runs after the answer.
Quieto == (\A c \in Calls : pc[c] = "idle") /\ lector = NoLector

NextPreflight ==
    \/ Quieto /\ \E cupo \in 0..MaxCupo : AdminPostTaller(cupo)
    \/ Quieto /\ \E id \in TallerIds, activo \in BOOLEAN : AdminPutTallerStatus(id, activo)
    \/ Quieto /\ \E c \in Calls, a \in Alumnos, t \in TallerIds : CreateBegin(c, a, t, NULL)
    \/ \E c \in Calls :
          /\ pc[c] = "select_activa" /\ lector = NoLector
          /\ VerificarSelectActiva(args[c].alumno_id, args[c].taller_id)
    \/ VerificarSelectCupo
    \/ lector.pc = "idle" /\ \E c \in Calls : CreateSelectActiva(c)
    \/ \E c \in Calls : CreateSelectCupo(c)
    \/ \E c \in Calls : CreateInsert(c)
    \/ \E c \in Calls : CreateCommit(c)

SpecPreflight == Init /\ [][NextPreflight]_vars


\* Users are created with their profiles, one call at a time, with failures.
NextCrearUsuario ==
    \/ \E tipo \in TiposUsuario : CrearInsertUsuario(tipo)
    \/ CrearInsertPerfil
    \/ CrearCommit
    \/ CrearFalla
    \/ \E u \in UsuarioIds, activo \in BOOLEAN : UpdateStatus(u, activo)

SpecCrearUsuario == Init /\ [][NextCrearUsuario]_vars


\* Students keep their emergency information.
NextEmergencia ==
    \/ \E a \in Alumnos, data \in DatosEmergencia : EmergenciaCreate(a, data)
    \/ \E id \in EmergenciaIds, a \in Alumnos, data \in DatosEmergencia :
          EmergenciaUpdate(id, a, data)
    \/ \E id \in EmergenciaIds, a \in Alumnos : EmergenciaDelete(id, a)

SpecEmergencia == Init /\ [][NextEmergencia]_vars


\* Every builder is given every object.
NextConsulta ==
    \/ \E id \in TallerIds, u \in UpdateDatas : TallerModelUpdate(id, u)
    \/ \E id \in TallerIds, u \in UpdateDatas : AvisoModelUpdate(id, u)
    \/ \E id \in TallerIds, u \in UpdateDatas : CalendarioModelUpdate(id, u)
    \/ \E id \in TallerIds, u \in UpdateDatas : AdminPutTallerConsulta(id, u)
    \/ ConsultaTermina

SpecConsulta == Init /\ [][NextConsulta]_vars


\* Users are created, activated and deactivated, by the administrator's
\* PUT /api/admin/usuarios/:id/status as well, while requests arrive.
EntradasStatus ==
    {e \in Entradas : e.ruta = "PUT /api/admin/usuarios/:id/status" /\ e.json}

NextSesion ==
    \/ Usuarios
    \/ \E entrada \in EntradasStatus : Llega(entrada)
    \/ \E excedido \in BOOLEAN : Limiter(excedido)
    \/ ExpressJson
    \/ ValidateUUIDParam
    \/ \E falla \in BOOLEAN : AuthenticateToken(falla)
    \/ Authorize
    \/ \E falla \in BOOLEAN : PutUsuarioStatus(falla)

SpecSesion == Init /\ [][NextSesion]_vars


\* Users of every type are created and switched on and off while requests
\* with and without a token arrive at three routes.
EntradasAdmin ==
    {e \in Entradas :
        /\ e.ruta \in {"PUT /api/admin/usuarios/:id/status",
                       "DELETE /api/admin/usuarios/:id",
                       "GET /api/talleres/estadisticas"}
        /\ e.json /\ e.id # 0 /\ e.token \in {"none", "valid"}}

NextAdmin ==
    \/ \E tipo \in TiposUsuario : CreateUser(tipo)
    \/ \E u \in UsuarioIds, activo \in BOOLEAN : UpdateStatus(u, activo)
    \/ \E entrada \in EntradasAdmin : Llega(entrada)
    \/ Limiter(FALSE)
    \/ ExpressJson
    \/ ValidateUUIDParam
    \/ AuthenticateToken(FALSE)
    \/ Authorize
    \/ PutUsuarioStatus(FALSE)
    \/ DeleteUsuarioTalleres(FALSE)
    \/ DeleteUsuarioInscripciones
    \/ DeleteUsuarioDeleteUser

SpecAdmin == Init /\ [][NextAdmin]_vars


\* Students, instructors and administrators are created with their
\* profiles, students enroll in a workshop, and administrators delete users.
NextBorrarUsuario ==
    \/ \E tipo \in {"alumno", "instructor", "admin"} : CrearInsertUsuario(tipo)
    \/ CrearInsertPerfil
    \/ CrearCommit
    \/ AdminPostTaller(MaxCupo)
    \/ \E a \in Alumnos : CreateBegin(1, a, 1, NULL)
    \/ CreateSelectActiva(1)
    \/ CreateSelectCupo(1)
    \/ CreateInsert(1)
    \/ CreateCommit(1)
    \/ \E entrada \in {e \in Entradas : /\ e.ruta = "DELETE /api/admin/usuarios/:id"
                                        /\ e.json /\ e.id # 0 /\ e.token = "valid"
                                        /\ e.activo = <<>>} : Llega(entrada)
    \/ Limiter(FALSE)
    \/ ExpressJson
    \/ ValidateUUIDParam
    \/ AuthenticateToken(FALSE)
    \/ Authorize
    \/ \E asignados \in BOOLEAN : DeleteUsuarioTalleres(asignados)
    \/ DeleteUsuarioInscripciones
    \/ DeleteUsuarioDeleteUser

SpecBorrarUsuario == Init /\ [][NextBorrarUsuario]_vars


\* Requests with bodies that parse and bodies that do not go through the
\* whole pipeline: limiter, body parser, a route's chain or the 404 handler,
\* and the global error handler.
NextServidor ==
    \/ \E tipo \in {"admin", "alumno"} : CreateUser(tipo)
    \/ \E entrada \in {e \in Entradas :
                          e.ruta \in {"PUT /api/admin/usuarios/:id/status",
                                      "GET /api/nada"}} : Llega(entrada)
    \/ \E excedido \in BOOLEAN : Limiter(excedido)
    \/ ExpressJson
    \/ NotFound
    \/ ValidateUUIDParam
    \/ \E falla \in BOOLEAN : AuthenticateToken(falla)
    \/ Authorize
    \/ \E falla \in BOOLEAN : PutUsuarioStatus(falla)
    \/ \E nodeEnv \in NodeEnvs : GlobalErrorHandler(ErrorDeVerify, nodeEnv)

SpecServidor == Init /\ [][NextServidor]_vars


(* ---- properties ------------------------------------------------------ *)
Fila(i)      == inscripciones[i]
EsActiva(i)  == i \in Ids /\ Fila(i).tx = 0 /\ Fila(i).estado = "activa"
Inscritos(t) == Cardinality({i \in Ids : EsActiva(i) /\ Fila(i).taller_id = t})
TieneActiva(a) == \E i \in Ids : EsActiva(i) /\ Fila(i).alumno_id = a
Termino(c)   == pc[c] = "idle" /\ res[c] # NoRes
\* the rows of t that are active and were inserted by neither call
ActivasAjenas(t, c, d) ==
    Cardinality({i \in Ids : EsActiva(i) /\ Fila(i).taller_id = t
                             /\ i # res[c].id /\ i # res[d].id})

\* C1: with enroll calls running concurrently, the active enrollments of a
\* workshop never outnumber its capacity.
C1_CapacidadBajoConcurrencia ==
    \A t \in TallerIds : talleres[t].existe => Inscritos(t) <= talleres[t].cupo_maximo

\* C2: two enroll calls of two different students, neither enrolled, for an
\* existing active workshop with exactly one seat left: once both have ended,
\* one has succeeded and the other has failed with the workshop-full error.
C2_UltimoCupo ==
    \A c, d \in Calls :
        (/\ c # d /\ Termino(c) /\ Termino(d)
         /\ args[c].taller_id = args[d].taller_id
         /\ args[c].alumno_id # args[d].alumno_id
         /\ res[c].outcome \notin {ErrYaInscrito, ErrNoTaller}
         /\ res[d].outcome \notin {ErrYaInscrito, ErrNoTaller}
         /\ talleres[args[c].taller_id].cupo_maximo
                - ActivasAjenas(args[c].taller_id, c, d) = 1)
        => {res[c].outcome, res[d].outcome} = {"ok", ErrSinCupo}

\* C3: a student profile never has more than one active enrollment, also when
\* the student's enroll calls for two workshops overlap.
C3_UnaSolaActiva ==
    \A a \in Alumnos :
        Cardinality({i \in Ids : EsActiva(i) /\ Fila(i).alumno_id = a}) <= 1

\* C4: under enroll, cancel, updateEstado and the administrator's workshop
\* updates, no workshop has fewer seats than active enrollments.
C4_CapacidadBajoTodaOperacion ==
    \A t \in TallerIds :
        talleres[t].existe => talleres[t].cupo_maximo - Inscritos(t) >= 0

\* C5: a cancelled row is never active again.
C5_SinResurreccion ==
    [][\A i \in Ids : Fila(i).estado = "cancelada"
                        => inscripciones'[i].estado # "activa"]_vars

\* C6: cancelar of an id that does not exist or whose row is not active
\* returns false and leaves the table as it was.
C6_CancelarSoloActivas ==
    [][\A id \in RowIds, motivo \in Motivos :
          (Cancelar(id, motivo) /\ ~EsActiva(id))
          => (ret'.val = FALSE /\ inscripciones' = inscripciones)]_vars

\* C7: when the student of an enroll call holds an active enrollment, in the
\* same or another workshop, the call fails with the already-enrolled error,
\* inserts no row and does nothing afterwards.
C7_YaInscritoRechaza ==
    [][\A c \in Calls :
          /\ (pc[c] = "select_activa" /\ TieneActiva(args[c].alumno_id)
                /\ CreateSelectActiva(c))
             => /\ res'[c] = [outcome |-> ErrYaInscrito, id |-> 0]
                /\ pc'[c] = "idle"
                /\ inscripciones' = inscripciones
          /\ res[c].outcome = ErrYaInscrito
             => (res'[c] = res[c] /\ pc'[c] = "idle")]_vars

\* a call rejected as already enrolled, the student active in another workshop
C7_Witness ==
    \E c \in Calls, i \in Ids :
        /\ res[c] = [outcome |-> ErrYaInscrito, id |-> 0]
        /\ EsActiva(i) /\ Fila(i).alumno_id = args[c].alumno_id
        /\ Fila(i).taller_id # args[c].taller_id

\* t exists, is active and has as many active enrollments as seats
Lleno(t) ==
    talleres[t].existe /\ talleres[t].activo /\ Inscritos(t) = talleres[t].cupo_maximo

\* (A cancellation that matches a row ticks the clock.)
\* C8: when an active enrollment of a full workshop is cancelled, the checks
\* of an enroll call for that workshop by any other student without an active
\* enrollment pass in the state the cancellation leaves.
C8_CancelarLiberaCupo ==
    [][reloj' # reloj =>
        \A id \in RowIds, motivo \in Motivos :
          (EsActiva(id) /\ Lleno(Fila(id).taller_id) /\ Cancelar(id, motivo))
          => \A a \in Alumnos \ {Fila(id).alumno_id} :
                ~TieneActiva(a)' =>
                    /\ CheckActiva(a)' = "ok"
                    /\ CheckCupo(Fila(id).taller_id)' = "ok"]_vars

\* a row of a workshop just cancelled, cancelled once, which leaves the
\* workshop one seat short of full, and a student with no active enrollment
C8_Witness ==
    \E i \in Ids, a \in Alumnos :
        /\ reloj > 0 /\ Fila(i).fecha_actualizacion = reloj
        /\ Fila(i).estado = "cancelada"
        /\ Fila(i).comentarios = <<"Cancelada por el usuario">>
        /\ talleres[Fila(i).taller_id].activo
        /\ Inscritos(Fila(i).taller_id) + 1 = talleres[Fila(i).taller_id].cupo_maximo
        /\ a # Fila(i).alumno_id /\ ~TieneActiva(a)

\* C9: for an existing active workshop, verificarCupoDisponible returns, and
\* the verdict of verificarPuedeInscribirse carries, capacity minus the number
\* of active enrollments.
C9_CuposDerivados ==
    [][/\ \A t \in TallerIds :
             (VerificarCupoDisponible(t) /\ talleres[t].existe /\ talleres[t].activo)
             => lector'.val = talleres[t].cupo_maximo - Inscritos(t)
       /\ (/\ VerificarSelectCupo
           /\ talleres[lector.taller_id].existe /\ talleres[lector.taller_id].activo
           /\ lector'.val.cupos_disponibles # <<>>)
          => lector'.val.cupos_disponibles =
                <<talleres[lector.taller_id].cupo_maximo - Inscritos(lector.taller_id)>>]_vars

\* (Only the reading client's steps change lector.)
\* C10: verificarPuedeInscribirse answers already-enrolled when the student
\* has an active enrollment; else not-found-or-inactive when the lookup gives
\* -1; else full when the seats are <= 0; else eligible with the seats.
C10_VeredictoEnOrden ==
    [][lector' # lector =>
        /\ \A a \in Alumnos, t \in TallerIds :
              VerificarSelectActiva(a, t) =>
                 IF TieneActiva(a)
                 THEN /\ lector'.pc = "idle"
                      /\ lector'.val.puede = FALSE
                      /\ lector'.val.razon = RazonYaInscrito
                 ELSE lector'.pc = "select_cupo" /\ lector'.taller_id = t
        /\ VerificarSelectCupo =>
              LET cupos == verificar_cupo_disponible(lector.taller_id)
                  v     == lector'.val
              IN  /\ lector'.pc = "idle"
                  /\ cupos = -1 => (~v.puede /\ v.razon = ErrNoTaller)
                  /\ (cupos # -1 /\ cupos <= 0) => (~v.puede /\ v.razon = ErrSinCupo)
                  /\ cupos > 0 => (/\ v.puede /\ v.razon = RazonPuede
                                   /\ v.cupos_disponibles = <<cupos>>)]_vars

\* the full verdict returned for a workshop that exists and is active
C10_Witness ==
    /\ lector.pc = "idle" /\ lector.op = "verificarPuedeInscribirse"
    /\ lector.val.razon = ErrSinCupo

\* C11: no step of verificarPuedeInscribirse, whatever its arguments and
\* whatever enroll calls are in flight around it, changes a row of
\* inscripciones or of talleres.
C11_SoloLectura ==
    [][(/\ lector' # lector
        /\ \/ \E a \in Alumnos, t \in TallerIds : VerificarSelectActiva(a, t)
           \/ VerificarSelectCupo)
       => (inscripciones' = inscripciones /\ talleres' = talleres)]_vars

\* the check answered eligible while an enroll call had its row uncommitted
C11_Witness ==
    /\ lector.pc = "idle" /\ lector.op = "verificarPuedeInscribirse"
    /\ lector.val.puede
    /\ \E i \in Ids : Fila(i).tx # 0


\* C12: an enroll call of a student with no active enrollment fails with the
\* workshop-not-found error exactly when the workshop is missing or inactive,
\* and with the workshop-full error exactly when it exists, is active and has
\* no seat left; in neither case is a row inserted.
C12_NoExisteOSinCupo ==
    [][pc' # pc =>
        \A c \in Calls :
          (/\ pc[c] = "select_cupo" /\ ~TieneActiva(args[c].alumno_id)
           /\ CreateSelectCupo(c))
          => LET t       == args[c].taller_id
                 falta   == ~(talleres[t].existe /\ talleres[t].activo)
                 sinCupo == ~falta /\ talleres[t].cupo_maximo - Inscritos(t) <= 0
             IN  /\ res'[c].outcome = ErrNoTaller <=> falta
                 /\ res'[c].outcome = ErrSinCupo <=> sinCupo
                 /\ (falta \/ sinCupo) =>
                        (inscripciones' = inscripciones /\ pc'[c] = "idle")]_vars


\* the rows a statement of any session can see, each with its id
Visibles == {<<i, Fila(i)>> : i \in {j \in Ids : Committed(Fila(j))}}

\* C13: a step of an enroll call changes the rows that can be seen only when
\* it is the COMMIT of a call that succeeds; so a call that fails, by a
\* business error or by a store failure at any round-trip, leaves the rows
\* as they were, and no row of it is ever seen.
C13_TodoONada ==
    [][\A c \in Calls :
          (pc'[c] # pc[c] /\ ~(pc[c] = "commit" /\ res'[c].outcome = "ok"))
          => Visibles' = Visibles]_vars

\* a call failed at COMMIT, its row inserted and rolled back, beside a call
\* that failed by a business rule
C13_Witness ==
    \E c, d \in Calls, i \in Ids :
        /\ res[c].outcome = ErrStore /\ Fila(i).tx = Aborted
        /\ Fila(i).alumno_id = args[c].alumno_id
        /\ res[d].outcome \in {ErrYaInscrito, ErrNoTaller, ErrSinCupo}


\* C14: of the steps of an enroll call that succeeds, the INSERT adds one row,
\* active, of the call's student and workshop, the COMMIT publishes that row,
\* which is the one the call returns, and no step changes another row of
\* inscripciones or any row of talleres.
C14_UnaFilaInsertada ==
    [][pc' # pc =>
        \A c \in Calls :
          pc'[c] # pc[c] =>
            /\ talleres' = talleres
            /\ IF pc[c] = "insert"
               THEN /\ Len(inscripciones') = Len(inscripciones) + 1
                    /\ \A i \in Ids : inscripciones'[i] = Fila(i)
                    /\ res'[c].id = Len(inscripciones')
                    /\ inscripciones'[res'[c].id].alumno_id = args[c].alumno_id
                    /\ inscripciones'[res'[c].id].taller_id = args[c].taller_id
                    /\ inscripciones'[res'[c].id].estado = "activa"
               ELSE IF pc[c] = "commit"
               THEN /\ res'[c] = [outcome |-> "ok", id |-> res[c].id]
                    /\ Len(inscripciones') = Len(inscripciones)
                    /\ \A i \in Ids \ {res[c].id} : inscripciones'[i] = Fila(i)
                    /\ EsActiva(res[c].id)'
                    /\ inscripciones'[res[c].id].alumno_id = args[c].alumno_id
                    /\ inscripciones'[res[c].id].taller_id = args[c].taller_id
               ELSE inscripciones' = inscripciones]_vars

\* the second of two successful calls: its row is returned, the first call's
\* row is beside it
C14_Witness ==
    \E c, d \in Calls :
        /\ c # d /\ res[c].outcome = "ok" /\ res[d].outcome = "ok"
        /\ res[c].id = 2 /\ res[d].id = 1
        /\ args[c].alumno_id # args[c].taller_id


EsPrefijo(p, s) == Len(p) <= Len(s) /\ SubSeq(s, 1, Len(p)) = p

\* C15: cancelar of an active enrollment returns true and leaves the row
\* cancelled; its comment is the cancellation text alone when the comment was
\* NULL, and otherwise the old comment, the separator and the cancellation
\* text, so the old comment is a prefix of the new one.
C15_CancelarAgregaComentario ==
    [][reloj' # reloj =>
        \A id \in RowIds, motivo \in Motivos :
          (EsActiva(id) /\ Cancelar(id, motivo))
          => LET previo == Fila(id).comentarios
                 texto  == ComentarioCancelacion(motivo)
                 nuevo  == inscripciones'[id].comentarios
             IN  /\ ret'.val = TRUE
                 /\ inscripciones'[id].estado = "cancelada"
                 /\ previo = NULL => nuevo = texto
                 /\ previo # NULL =>
                        /\ nuevo = previo \o <<" | ">> \o texto
                        /\ EsPrefijo(previo, nuevo)]_vars

\* a row created with a comment and cancelled with a motivo
C15_Witness ==
    \E i \in Ids :
        /\ Fila(i).estado = "cancelada"
        /\ Fila(i).comentarios = <<"c", " | ", "Cancelada: ", "m">>


\* C16: with the administrator's DELETE of a workshop interleaved with enroll
\* calls, the workshop of every active enrollment exists.
C16_TallerDeInscripcionExiste ==
    \A i \in Ids : EsActiva(i) => talleres[Fila(i).taller_id].existe


\* C17: TallerModel.delete and PUT .../status with activo = false change, of
\* the stored rows, the active flag of that workshop and nothing else: every
\* enrollment keeps its state, student and workshop; and an enroll call that
\* reaches its seat check while the workshop is inactive fails with the
\* workshop-not-found error and inserts nothing.
C17_DesactivarSoloBandera ==
    [][/\ \A id \in TallerIds :
             (TallerDelete(id) \/ AdminPutTallerStatus(id, FALSE))
             => /\ inscripciones' = inscripciones
                /\ talleres' = [talleres EXCEPT ![id].activo = FALSE]
       /\ \A c \in Calls :
             (/\ pc[c] = "select_cupo"
              /\ talleres[args[c].taller_id].existe
              /\ ~talleres[args[c].taller_id].activo
              /\ CreateSelectCupo(c))
             => /\ res'[c] = [outcome |-> ErrNoTaller, id |-> 0]
                /\ pc'[c] = "idle"
                /\ inscripciones' = inscripciones]_vars

\* a deactivated workshop with its active enrollment still there, and an
\* enroll call for it rejected as not found
C17_Witness ==
    \E i \in Ids, c \in Calls :
        /\ EsActiva(i)
        /\ talleres[Fila(i).taller_id].existe /\ ~talleres[Fila(i).taller_id].activo
        /\ args[c].taller_id = Fila(i).taller_id
        /\ res[c].outcome = ErrNoTaller


\* C18: the handler of POST /api/talleres/:id/inscripcion runs only for a
\* user of type alumno whose student profile id is in req.alumno.
C18_SoloAlumnos ==
    peticion.pc = "inscribirseATaller"
        => (peticion.user[1].tipo_usuario = "alumno" /\ peticion.alumno # <<>>)


\* C19: for an error with no recognised name or code, whatever NODE_ENV is,
\* the global error handler answers with a status in 500..599 and a body that
\* carries neither the error's message nor its stack.
C19_ErrorSinDetalle ==
    [][\A err \in Errores, nodeEnv \in NodeEnvs :
          (/\ err.name = "Error" /\ err.code \notin {"23505", "23503"}
           /\ GlobalErrorHandler(err, nodeEnv))
          => /\ peticion'.status \in 500..599
             /\ Truthy(err.message) => peticion'.body.message # <<err.message>>
             /\ peticion'.body.details # <<err.message>>
             /\ peticion'.body.stack = <<>>]_vars


\* the call that began last
Ultima(c) == args[c] # NoArgs /\ \A d \in Calls : d > c => args[d] = NoArgs

\* C20: with nothing else running, an enroll call made in the state in which
\* verificarPuedeInscribirse answered for the same student and workshop
\* succeeds exactly when the answer was eligible, and fails as already
\* enrolled, not found or full exactly when the answer gave that reason.
C20_EnrollComoVeredicto ==
    \A c \in Calls :
        (/\ Ultima(c) /\ Termino(c)
         /\ lector.pc = "idle" /\ lector.op = "verificarPuedeInscribirse")
        => /\ res[c].outcome = "ok" <=> lector.val.puede
           /\ res[c].outcome = ErrYaInscrito <=> lector.val.razon = RazonYaInscrito
           /\ res[c].outcome = ErrNoTaller <=> lector.val.razon = ErrNoTaller
           /\ res[c].outcome = ErrSinCupo <=> lector.val.razon = ErrSinCupo

\* a full workshop: the answer was full and the call failed as full
C20_Witness ==
    \E c \in Calls :
        /\ Ultima(c) /\ Termino(c) /\ res[c].outcome = ErrSinCupo
        /\ lector.pc = "idle" /\ lector.op = "verificarPuedeInscribirse"
        /\ lector.val.razon = ErrSinCupo


\* C28: every user row that can be seen, of type alumno or instructor, has
\* its profile row: createUserWithProfile leaves both rows or neither, also
\* when the insert of the profile fails.
C28_UsuarioConPerfil ==
    \A u \in UsuarioIds :
        UsuarioVisible(u) => usuarios[u].perfil = PerfilDe(usuarios[u].tipo_usuario)

\* a student committed with its profile, beside an administrator, who has none
C28_Witness ==
    /\ UsuarioVisible(1) /\ usuarios[1].tipo_usuario = "admin"
    /\ UsuarioVisible(2) /\ usuarios[2].tipo_usuario = "alumno"
    /\ usuarios[2].perfil = <<"perfiles_alumno">>


\* C29: an update or a delete of emergency information changes or removes
\* no row but the one whose id and alumno_id are both the arguments; when
\* there is no such row it returns null and every row is as it was.
C29_SoloElDuenno ==
    [][\A id \in EmergenciaIds, a \in Alumnos :
          (\/ \E data \in DatosEmergencia : EmergenciaUpdate(id, a, data)
           \/ EmergenciaDelete(id, a))
          => /\ \A j \in EmergenciaIds :
                   emergencia'[j] # emergencia[j]
                   => (j = id /\ emergencia[j].existe /\ emergencia[j].alumno_id = a)
             /\ ~(emergencia[id].existe /\ emergencia[id].alumno_id = a)
                   => (ret'.val = <<>> /\ emergencia' = emergencia)]_vars

\* another student's delete of an existing row returned null
C29_Witness ==
    /\ ret.op = "emergencia.delete" /\ ret.val = <<>>
    /\ emergencia[ret.id].existe /\ emergencia[ret.id].alumno_id # ret.alumno_id


\* the whitelist of each builder, and the whitelisted entries of an object
\* in the order the builder meets them: the object's order in the models,
\* the whitelist's order in the handler
ListaDe(op) ==
    CASE op = "TallerModel.update" -> AllowedTaller
      [] op = "AvisoModel.update" -> AllowedAviso
      [] op = "CalendarioModel.update" -> AllowedCalendario
      [] OTHER -> AllowedTaller

Presentes(op, data) ==
    IF op = "PUT /api/admin/talleres/:id"
    THEN LET en == SelectSeq(AllowedTaller,
                       LAMBDA c : \E i \in 1..Len(data) : data[i].key = c)
         IN  [k \in 1..Len(en) |->
                 CHOOSE e \in Rango(data) : e.key = en[k]]
    ELSE SelectSeq(data, LAMBDA e : \E i \in 1..Len(ListaDe(op)) : ListaDe(op)[i] = e.key)

\* C27: the statement a builder makes of an object has one clause
\* 'field = $k' for each whitelisted field of the object, numbered 1..n in
\* order, the k-th parameter that field's value, the row id as parameter
\* n + 1 and in the WHERE clause, no other key of the object (the one
\* clause more, of TallerModel.update, is the fixed updated_at =
\* CURRENT_TIMESTAMP, without a parameter); an object without a whitelisted
\* field gives an error and no statement.
C27_ConsultaSegunLista ==
    consulta.op # "none" =>
        LET p == Presentes(consulta.op, consulta.data)
            n == Len(p)
        IN  IF n = 0
            THEN consulta.error /\ consulta.set = <<>> /\ consulta.values = <<>>
            ELSE /\ ~consulta.error
                 /\ Len(consulta.set) = n
                 /\ Rango(consulta.fijo) \subseteq {"updated_at = CURRENT_TIMESTAMP"}
                 /\ \A k \in 1..n :
                       /\ consulta.set[k] = [campo |-> p[k].key, n |-> k]
                       /\ consulta.values[k] = p[k].value
                 /\ Len(consulta.values) = n + 1
                 /\ consulta.values[n + 1] = consulta.id
                 /\ consulta.where = n + 1

\* an object with a key outside the whitelist between two inside it
C27_Witness ==
    /\ consulta.op = "AvisoModel.update"
    /\ Len(consulta.data) = 3 /\ consulta.data[2].key = "rol"
    /\ Len(consulta.set) = 2 /\ consulta.where = 3

\* C25: DELETE /api/admin/talleres/:id is a soft delete: after a call
\* answered 200 the row of the workshop is still there with activo = false,
\* and no row has left the table.
C25_BorradoLogico ==
    [][(borrar.pc = "delete" /\ borrar'.status = 200)
       => /\ talleres'[borrar.taller_id].existe
          /\ ~talleres'[borrar.taller_id].activo
          /\ \A t \in TallerIds : talleres[t].existe => talleres'[t].existe]_vars


\* C21: authenticateToken calls next, with req.user taken from the stored
\* row, only when the token verifies and the user it names exists and is
\* active at that moment; otherwise it answers 401, or 500 when the store
\* fails, and does not call next. So the requests that come with the token
\* of a deactivated user are rejected for as long as the user is inactive.
C21_SoloActivos ==
    [][(peticion.pc = "authenticateToken" /\ peticion'.pc # "authenticateToken")
       => LET e == peticion.entrada
              u == e.userId
              vigente == /\ e.token = "valid"
                         /\ usuarios[u].existe /\ usuarios[u].tx = 0
                         /\ usuarios[u].activo
          IN  /\ peticion'.pc # "respondido"
                 => /\ vigente
                    /\ peticion'.user =
                          <<[id |-> u, tipo_usuario |-> usuarios[u].tipo_usuario,
                             activo |-> TRUE]>>
              /\ peticion'.pc = "respondido"
                 => /\ peticion'.user = <<>> /\ peticion'.envios = 1
                    /\ peticion'.status \in {401, 500}
                    /\ peticion'.status = 500 => e.token = "valid"
                    /\ vigente => peticion'.status = 500
              /\ ~vigente => peticion'.pc = "respondido"]_vars

\* the token of a deactivated user has been answered 401 'Usuario inactivo'
C21_Witness ==
    /\ peticion.pc = "respondido" /\ peticion.status = 401
    /\ peticion.body = [error |-> "Usuario inactivo"]
    /\ peticion.entrada.token = "valid"
    /\ usuarios[peticion.entrada.userId].existe
    /\ ~usuarios[peticion.entrada.userId].activo


\* the handlers of /api/admin/usuarios, at each of their statements
EnHandlerAdmin(p) ==
    p.pc \in {"putUsuarioStatus", "deleteUsuario", "deleteUsuario.inscripciones",
              "deleteUsuario.deleteUser"}

\* C22: authorize(...allowedTypes) calls next exactly when req.user is set
\* and its tipo_usuario is one of allowedTypes, answers 401 without req.user
\* and 403 for another type; so a handler of /api/admin runs only with the
\* req.user of an administrator whom authenticateToken found active.
C22_SoloTiposPermitidos ==
    [][/\ (peticion.pc = "authorize" /\ peticion'.pc # "authorize")
          => LET permitido ==
                     /\ peticion.user # <<>>
                     /\ peticion.user[1].tipo_usuario
                            \in AllowedTypes(peticion.entrada.ruta)
             IN  /\ peticion'.pc # "respondido" <=> permitido
                 /\ peticion.user = <<>> => peticion'.status = 401
                 /\ (peticion.user # <<>> /\ ~permitido) => peticion'.status = 403
       /\ EnHandlerAdmin(peticion')
          => /\ peticion'.user # <<>>
             /\ peticion'.user[1].tipo_usuario = "admin"
             /\ peticion'.user[1].activo]_vars

\* the request of an instructor to an admin route was answered 403
C22_Witness ==
    /\ peticion.pc = "respondido" /\ peticion.status = 403
    /\ peticion.entrada.ruta = "DELETE /api/admin/usuarios/:id"
    /\ peticion.user # <<>> /\ peticion.user[1].tipo_usuario = "instructor"

\* C24: PUT /api/admin/usuarios/:id/status with activo = false and DELETE
\* /api/admin/usuarios/:id, when :id is the id of the administrator who
\* sends the request, are answered 400 and change no user row; no step of a
\* handler makes the administrator who sent its request inactive.
C24_NoASiMismo ==
    [][/\ (/\ peticion.pc = "putUsuarioStatus" /\ peticion'.pc # peticion.pc
           /\ peticion.entrada.id = peticion.user[1].id
           /\ peticion.entrada.activo = <<FALSE>>)
          => (peticion'.status = 400 /\ usuarios' = usuarios)
       /\ (/\ peticion.pc = "deleteUsuario" /\ peticion'.pc # peticion.pc
           /\ peticion.entrada.id = peticion.user[1].id)
          => (/\ peticion'.pc = "respondido" /\ peticion'.status = 400
              /\ usuarios' = usuarios)
       /\ (EnHandlerAdmin(peticion) /\ peticion'.pc # peticion.pc)
          => (usuarios[peticion.user[1].id].activo
              => usuarios'[peticion.user[1].id].activo)]_vars

\* an administrator's DELETE of the own account was answered 400
C24_Witness ==
    /\ peticion.pc = "respondido" /\ peticion.status = 400
    /\ peticion.body = [error |-> "Operacion no permitida"]
    /\ peticion.entrada.ruta = "DELETE /api/admin/usuarios/:id"
    /\ peticion.entrada.id = peticion.user[1].id
    /\ usuarios[peticion.entrada.id].activo


\* C23: when the handler of DELETE /api/admin/usuarios/:id counts the
\* enrollments of the user and the user's student profile has an enrollment
\* in state 'activa', the request is answered 400 and no user row changes.
C23_NoBorraConActivas ==
    [][(/\ peticion.pc = "deleteUsuario.inscripciones"
        /\ peticion'.pc # peticion.pc
        /\ usuarios[peticion.entrada.id].perfil = <<"perfiles_alumno">>
        /\ TieneActiva(peticion.entrada.id))
       => (/\ peticion'.pc = "respondido" /\ peticion'.status = 400
           /\ usuarios' = usuarios)]_vars


\* C26: along every path through the pipeline a response is written once
\* and never a second time: no request has more than one write, and a
\* request that has been answered has exactly one; so after the 400 of a
\* body that does not parse no handler writes again.
C26_UnaRespuesta ==
    /\ peticion.envios <= 1
    /\ peticion.pc = "respondido" => peticion.envios = 1

====
